---- MODULE Spec2Model ----
(***************************************************************************)
(* A model of the example scripts of free-crypto-news:                     *)
(*   examples/telegram-digest.py  the digest bot: the subscriber registry  *)
(*       (subscribed_users), the daily fan-out (send_daily_digest), the    *)
(*       interactive commands, digest composition and escape_markdown;     *)
(*   examples/telegram-bot.py     the simple bot's four commands;          *)
(*   examples/langchain-tool.py   the get_crypto_news tool.                *)
(*                                                                         *)
(* The registry is a Python dict.  The fan-out iterates it live across     *)
(* awaits, so the dict is modelled with the parts of CPython's dict that   *)
(* decide what an iteration overlapping an insert or a delete does: the    *)
(* entries array in insertion order (a deleted entry leaves a dummy), the  *)
(* number of live entries, and the item iterator's position, its remaining *)
(* count and the size it saw when it was created.                          *)
(***************************************************************************)
EXTENDS Integers, Sequences, FiniteSets, TLC

\* ---------------------------------------------------------------- bounds

\* Telegram users 1..MaxUser issue commands.
MaxUser == 3

\* The clock (datetime.now) takes the values 0..MaxClock; where the clock
\* advances with every command, this also bounds the number of commands.
MaxClock == 8

\* escape_markdown is called with texts of up to MaxLen characters.
MaxLen == 3

\* Where the daily job runs while commands are handled at their own times,
\* at most MaxUpdates commands are handled.
MaxUpdates == 5

\* format_article is called with the indexes 0 .. MaxIndex (and with none).
MaxIndex == 2

\* A response of the API holds up to MaxArticles articles.
MaxArticles == 6

\* Where the reading commands are handled next to the registry commands and
\* the daily job, at most MaxCommands registry commands are handled.
MaxCommands == 3

Users == 1 .. MaxUser

\* A command arrives in the user's private chat (chat id = user id) or in
\* the one group chat, whose id is no user id.
GroupChat == 0

Chats(u) == {u, GroupChat}

\* ------------------------------------------------------- the Python dict

\* CPython: the smallest key table of a dict.
PyDict_MINSIZE == 8

\* CPython: the number of entries a key table of n slots can hold.
USABLE_FRACTION(n) == (2 * n) \div 3

\* A deleted entry of the entries array (its value is NULL).
Dummy == 0

RECURSIVE calculate_keysize(_, _)
\* CPython: the smallest power of two, from size on, that is >= minsize.
calculate_keysize(size, minsize) ==
    IF size >= minsize THEN size ELSE calculate_keysize(2 * size, minsize)

\* The entries of es that are live, in order (a resize copies only these).
LiveEntries(es) == SelectSeq(es, LAMBDA e : e # Dummy)

VARIABLES
    subscribed_users,   \* the registry: user id -> [chat_id, subscribed_at, timezone]
    dk_entries,         \* the dict's entries array: user ids in insertion order, Dummy for a deleted one
    dk_size,            \* the dict's key table size
    now,                \* datetime.now()
    handler,            \* the command handler that runs or ran last: [script, name]
    hpc,                \* that handler: "idle", suspended at a "fetch", "returned" or "raised"
    chat,               \* the messages that handler has put in the user's chat, in order
    fetches,            \* the results of that handler's fetches so far, in call order
    pc,                 \* send_daily_digest: where the job is suspended
    di_pos,             \* the items iterator: next index into dk_entries
    di_used,            \* the items iterator: the dict's size when the iterator was made
    di_len,             \* the items iterator: items still expected
    user_id,            \* the loop variable user_id (0: none)
    chat_id,            \* the loop body's chat_id
    news_data,          \* the loop body's news_data
    trending_data,      \* the loop body's trending_data
    snapshot,           \* history: the registry's keys when the cycle started
    attempted,          \* history: the user ids send_message was called for, in order
    raised,             \* history: the user ids whose send_message raised
    logged,             \* history: the user ids of the logger.error lines of the cycle
    md_in,              \* escape_markdown: the text it is called with, a sequence of characters
    md_out,             \* escape_markdown: the text it returned
    md_done,            \* escape_markdown: whether it has returned
    optout,             \* history: the users whose last /subscribe or /unsubscribe, if any, left them unsubscribed
    rd_in,              \* a rendering function: the call, [fn, ...arguments]
    rd_out,             \* a rendering function: <<what the call returned>> (<<>>: not yet)
    app                 \* main: the script it ran in and what it has done

vars == <<subscribed_users, dk_entries, dk_size, now, handler, hpc, chat, fetches,
          pc, di_pos, di_used, di_len, user_id, chat_id, news_data,
          trending_data, snapshot, attempted, raised, logged, md_in, md_out,
          md_done, optout, rd_in, rd_out, app>>

md == <<md_in, md_out, md_done>>

ui == <<handler, hpc, chat, fetches>>

registry == <<subscribed_users, dk_entries, dk_size>>

members == <<registry, optout>>

render == <<rd_in, rd_out>>

calls == <<md, render, app>>

iterator == <<di_pos, di_used, di_len>>

body == <<user_id, chat_id, news_data, trending_data>>

history == <<snapshot, attempted, raised, logged>>

job == <<pc, iterator, body, history>>

\* len(subscribed_users): the dict's ma_used.
ma_used == Cardinality(DOMAIN subscribed_users)

\* subscribed_users[u] = v for a key that is not in the dict: the entries
\* array gets a new last entry; a full array is first rebuilt from its live
\* entries in a key table sized for three times the live entries.  That
\* size is the rule of CPython 3.9 and 3.10 (GROWTH_RATE = 3 * used); later
\* versions round the size of the rebuilt table up differently, the order
\* and the liveness of the entries are the same in all of them.
dict_insert_entries(es, size, used, u) ==
    IF Len(es) >= USABLE_FRACTION(size)
    THEN Append(LiveEntries(es), u)
    ELSE Append(es, u)

dict_insert_size(es, size, used) ==
    IF Len(es) >= USABLE_FRACTION(size)
    THEN calculate_keysize(PyDict_MINSIZE, 3 * used)
    ELSE size

\* del subscribed_users[u]: the entry becomes a dummy, nothing moves.
dict_delitem_entries(es, u) ==
    [i \in 1 .. Len(es) |-> IF es[i] = u THEN Dummy ELSE es[i]]

\* -------------------------------------------------- the items iterator

\* The index of the first live entry of es after index i (Len(es) + 1: none).
RECURSIVE FirstLive(_, _)
FirstLive(es, i) ==
    IF i >= Len(es) THEN Len(es) + 1
    ELSE IF es[i + 1] # Dummy THEN i + 1
    ELSE FirstLive(es, i + 1)

\* next() of the iterator of subscribed_users.items() (CPython's
\* dictiter_iternextitem) with position pos, creation size used and len items
\* still expected: RuntimeError when the dict's size is not the size at
\* creation, StopIteration at the end of the entries array, RuntimeError when
\* an entry is found though none is expected any more, else the entry.
dictiter_iternextitem(pos, used, len) ==
    IF used # ma_used
    THEN [kind |-> "RuntimeError", key |-> 0, pos |-> pos]
    ELSE LET j == FirstLive(dk_entries, pos) IN
         IF j > Len(dk_entries)
         THEN [kind |-> "StopIteration", key |-> 0, pos |-> pos]
         ELSE IF len = 0
         THEN [kind |-> "RuntimeError", key |-> 0, pos |-> pos]
         ELSE [kind |-> "item", key |-> dk_entries[j], pos |-> j]

\* ------------------------------------------------------- the news client

\* What one GET of the API can come to: the request fails, the status is not
\* 200, the body is not JSON, or a JSON body whose list is empty or not.
HttpOutcomes == {"network", "http_status", "decode", "empty", "ok"}

\* telegram-digest.py fetch_news: the JSON of a 200 response; None for any
\* other status and, the exception logged, for any exception.
fetch_news(o) ==
    CASE o = "network"     -> "None"
      [] o = "http_status" -> "None"
      [] o = "decode"      -> "None"
      [] OTHER             -> o

\* `data and data.get(key)`: the response is there and its list is not empty.
HasItems(data) == data = "ok"

\* -------------------------------------------------------- escape_markdown

\* A text is a sequence of characters, each a string; the backtick, which a
\* string of this language cannot hold, is written "backtick". text.replace(char, rep) for a one
\* character char: every occurrence, left to right, becomes rep.
RECURSIVE replace(_, _, _)
replace(text, char, rep) ==
    IF text = <<>> THEN <<>>
    ELSE (IF Head(text) = char THEN rep ELSE <<Head(text)>>)
           \o replace(Tail(text), char, rep)

\* The list without its last character.
special_chars_Short ==
    <<"_", "*", "[", "]", "(", ")", "~", "backtick", ">", "#", "+", "-", "=", "|",
      "{", "}", ".">>

\* escape_markdown's list special_chars.
special_chars ==
    <<"_", "*", "[", "]", "(", ")", "~", "backtick", ">", "#", "+", "-", "=", "|",
      "{", "}", ".", "!">>

\* The loop of escape_markdown over special_chars from index i on.
RECURSIVE escape_from(_, _)
escape_from(text, i) ==
    IF i > Len(special_chars) THEN text
    ELSE escape_from(replace(text, special_chars[i], <<"\\", special_chars[i]>>),
                     i + 1)

escape_markdown(text) == escape_from(text, 1)

\* escape_markdown is called with md_in and returns.
EscapeCall ==
    /\ ~md_done
    /\ md_out' = escape_markdown(md_in)
    /\ md_done' = TRUE
    /\ UNCHANGED <<md_in, members, now, ui, job, render, app>>

\* ------------------------------------------------------------- rendering

\* The limit that news_command, bitcoin_command, defi_command and
\* breaking_command pass to send_news, and digest_command's [:5].
NewsLimit == 5

\* The rendering functions are pure: a call is drawn, the function returns.
NoCall == [fn |-> "none"]

\* The fields of an article record of the API.
ArticleFields == {"title", "source", "link", "timeAgo"}

\* The values a field of an article can have: texts with and without
\* characters that MarkdownV2 reserves.
FieldValues(k) ==
    CASE k = "title"   -> {<<"a", ".">>, <<"b", "!">>}
      [] k = "source"  -> {<<"s">>, <<"s", ".", "c">>}
      [] k = "link"    -> {<<"u">>}
      [] k = "timeAgo" -> {<<"1", "h">>, <<"1", "-", "2", "h">>}

\* An article record: any subset of the fields, each with one of its values.
Articles ==
    UNION {{a \in [D -> UNION {FieldValues(k) : k \in ArticleFields}] :
              \A k \in D : a[k] \in FieldValues(k)} : D \in SUBSET ArticleFields}

\* The article records that have every field.
FullArticles == {a \in Articles : DOMAIN a = ArticleFields}

\* dict.get(key, default).
get(d, key, default) == IF key \in DOMAIN d THEN d[key] ELSE default

\* An index is None or an integer, written as str() writes it.
\* Python's truth value of format_article's index: None and 0 are false.
truth(index) == index # "None" /\ index # "0"

\* format_article's prefix.
format_prefix(index) ==
    IF truth(index) THEN <<index, ".", " ">> ELSE <<"glyph">>

\* format_article: the parts that the template puts into the text, in its
\* order; only the title goes through escape_markdown.
format_article(article, index) ==
    [prefix   |-> format_prefix(index),
     title    |-> escape_markdown(get(article, "title", <<"No title">>)),
     source   |-> get(article, "source", <<"Unknown">>),
     time_ago |-> get(article, "timeAgo", <<>>),
     link     |-> get(article, "link", <<>>)]

\* articles[:limit].
Slice(s, limit) == SubSeq(s, 1, IF Len(s) < limit THEN Len(s) ELSE limit)

\* The headlines with the articles taken last to first.
headlines_Reversed(articles, limit) ==
    LET first == Slice(articles, limit) IN
    [i \in 1 .. Len(first) |-> format_article(first[Len(first) + 1 - i], ToString(i))]

\* for i, article in enumerate(articles[:limit], 1): format_article(article, i)
\* of send_news, digest_command and send_daily_digest.
headlines(articles, limit) ==
    LET first == Slice(articles, limit) IN
    [i \in 1 .. Len(first) |-> format_article(first[i], ToString(i))]

\* The fields of a topic record of the trending endpoint.
TopicFields == {"topic", "count", "sentiment"}

TopicValues(k) ==
    CASE k = "topic"     -> {<<"t">>, <<"t", "_", "x">>}
      [] k = "count"     -> {<<"3">>}
      [] k = "sentiment" -> {<<"bullish">>, <<"bearish">>, <<"mixed", "-", "up">>}

\* A topic record: any subset of the fields, each with one of its values.
Topics ==
    UNION {{t \in [D -> UNION {TopicValues(k) : k \in TopicFields}] :
              \A k \in D : t[k] \in TopicValues(k)} : D \in SUBSET TopicFields}

\* '🟢' if sentiment == 'bullish' else '🔴' if sentiment == 'bearish' else '⚪'
sentiment_emoji(sentiment) ==
    CASE sentiment = <<"bullish">> -> "green"
      [] sentiment = <<"bearish">> -> "red"
      [] OTHER                     -> "white"

\* trending_command's line for topic number i: the topic name goes through
\* escape_markdown, the count and the sentiment word go in as they are.
trending_line(topic, i) ==
    [index     |-> i,
     emoji     |-> sentiment_emoji(get(topic, "sentiment", <<"None">>)),
     topic     |-> escape_markdown(get(topic, "topic", <<"Unknown">>)),
     count     |-> get(topic, "count", <<"0">>),
     sentiment |-> get(topic, "sentiment", <<"neutral">>)]

\* The line for a topic in digest_command and in send_daily_digest (which
\* leaves out the count).
digest_topic_line(topic) ==
    [emoji |-> sentiment_emoji(get(topic, "sentiment", <<"None">>)),
     topic |-> escape_markdown(get(topic, "topic", <<>>)),
     count |-> get(topic, "count", <<"0">>)]

\* str.upper() of a character; a word of the API is one character here.
upper_char(c) ==
    CASE c = "bullish" -> "BULLISH"
      [] c = "bearish" -> "BEARISH"
      [] c = "neutral" -> "NEUTRAL"
      [] c = "mixed"   -> "MIXED"
      [] c = "up"      -> "UP"
      [] OTHER         -> c

upper(text) == [i \in DOMAIN text |-> upper_char(text[i])]

\* The analysis records of the analyze endpoint: with or without the
\* overallSentiment word.
Analyses ==
    {<<>>} \cup {[k \in {"overallSentiment"} |-> w] : w \in TopicValues("sentiment")}

\* digest_command's market sentiment line.
sentiment_line(analysis) ==
    LET sentiment == get(analysis, "overallSentiment", <<"neutral">>) IN
    [emoji     |-> sentiment_emoji(sentiment),
     sentiment |-> escape_markdown(upper(sentiment))]

\* telegram-bot.py and langchain-tool.py: article[key] for each key of keys,
\* a KeyError when the record has no such key.
subscript_line(article, keys) ==
    IF keys \subseteq DOMAIN article
    THEN [k \in keys |-> article[k]]
    ELSE [KeyError |-> keys \ DOMAIN article]

\* The keys that the article line of each handler of telegram-bot.py and of
\* get_crypto_news subscripts.
LineKeys ==
    [bot_news     |-> {"title", "link", "source", "timeAgo"},
     bot_list     |-> {"title", "link"},
     bot_breaking |-> {"title", "link", "timeAgo"},
     tool_news    |-> {"title", "source", "timeAgo"}]

\* The indexes format_article is called with: none, and 0 .. MaxIndex.
Indexes == {"None"} \cup {ToString(i) : i \in 0 .. MaxIndex}

\* The article lists of a response: up to MaxArticles articles.
ArticleLists ==
    UNION {[1 .. n -> {a \in FullArticles : a["source"] = <<"s">> /\ a["timeAgo"] = <<"1", "h">>}] :
             n \in 0 .. MaxArticles}

\* The calls of the rendering functions.
RenderCalls ==
    {[fn |-> "format_article", article |-> a, index |-> i] :
        a \in Articles, i \in Indexes}
    \cup {[fn |-> "headlines", articles |-> l, limit |-> NewsLimit] : l \in ArticleLists}
    \cup {[fn |-> "trending_line", topic |-> t, index |-> ToString(i)] :
             t \in Topics, i \in 1 .. MaxIndex}
    \cup {[fn |-> "digest_topic_line", topic |-> t] : t \in Topics}
    \cup {[fn |-> "sentiment_line", analysis |-> a] : a \in Analyses}
    \cup {[fn |-> "subscript_line", article |-> a, handler |-> h] :
             a \in Articles, h \in DOMAIN LineKeys}

\* The call rd_in returns.
Returns(fn, value) ==
    /\ rd_in.fn = fn
    /\ rd_out = <<>>
    /\ rd_out' = <<value>>
    /\ UNCHANGED <<rd_in, md, app, members, now, ui, job>>

FormatArticleCall ==
    Returns("format_article", format_article(rd_in.article, rd_in.index))

HeadlinesCall == Returns("headlines", headlines(rd_in.articles, rd_in.limit))

TrendingLineCall ==
    Returns("trending_line", trending_line(rd_in.topic, rd_in.index))

DigestTopicLineCall ==
    Returns("digest_topic_line", digest_topic_line(rd_in.topic))

SentimentLineCall == Returns("sentiment_line", sentiment_line(rd_in.analysis))

SubscriptLineCall ==
    Returns("subscript_line", subscript_line(rd_in.article, LineKeys[rd_in.handler]))

\* ------------------------------------------------------ command handlers

\* The three scripts.
DigestBot == "telegram-digest.py"

SimpleBot == "telegram-bot.py"

LangchainTool == "langchain-tool.py"

NoHandler == [script |-> "none", name |-> "none"]

\* Updates are handled one at a time: a handler starts when none is running.
CanStart == hpc \in {"idle", "returned", "raised"}

\* A handler of script s for command n that replies with the one text t and
\* returns.
Replies(s, n, t) ==
    /\ CanStart
    /\ handler' = [script |-> s, name |-> n]
    /\ hpc' = "returned"
    /\ chat' = <<<<t>>>>
    /\ fetches' = <<>>

\* ------------------------------------------------------ registry commands

\* subscribe_command without its membership test: the entry is written anew.
subscribe_command_Overwrite(u, c) ==
    /\ subscribed_users' =
          [v \in DOMAIN subscribed_users \cup {u} |->
              IF v = u
              THEN [chat_id |-> c, subscribed_at |-> now, timezone |-> "UTC"]
              ELSE subscribed_users[v]]
    /\ dk_entries' = IF u \in DOMAIN subscribed_users
                     THEN dk_entries
                     ELSE dict_insert_entries(dk_entries, dk_size, ma_used, u)
    /\ dk_size' = IF u \in DOMAIN subscribed_users
                  THEN dk_size
                  ELSE dict_insert_size(dk_entries, dk_size, ma_used)
    /\ Replies(DigestBot, "subscribe", "subscribed")
    /\ optout' = optout \ {u}
    /\ UNCHANGED <<job, calls>>

\* subscribe_command for user u in chat c.
subscribe_command(u, c) ==
    /\ IF u \in DOMAIN subscribed_users
       THEN /\ Replies(DigestBot, "subscribe", "already_subscribed")
            /\ UNCHANGED registry
       ELSE /\ subscribed_users' = subscribed_users @@
                  (u :> [chat_id |-> c, subscribed_at |-> now, timezone |-> "UTC"])
            /\ dk_entries' = dict_insert_entries(dk_entries, dk_size, ma_used, u)
            /\ dk_size' = dict_insert_size(dk_entries, dk_size, ma_used)
            /\ Replies(DigestBot, "subscribe", "subscribed")
    /\ optout' = optout \ {u}
    /\ UNCHANGED <<job, calls>>

\* unsubscribe_command without its else branch: the reply is always the same.
unsubscribe_command_OneReply(u) ==
    /\ subscribed_users' =
          [v \in DOMAIN subscribed_users \ {u} |-> subscribed_users[v]]
    /\ dk_entries' = dict_delitem_entries(dk_entries, u)
    /\ dk_size' = dk_size
    /\ Replies(DigestBot, "unsubscribe", "unsubscribed")
    /\ optout' = optout \cup {u}
    /\ UNCHANGED <<job, calls>>

\* unsubscribe_command that replies but leaves the entry in the dict.
unsubscribe_command_NoDelete(u) ==
    /\ Replies(DigestBot, "unsubscribe", "unsubscribed")
    /\ UNCHANGED registry
    /\ optout' = optout \cup {u}
    /\ UNCHANGED <<job, calls>>

\* unsubscribe_command for user u.
unsubscribe_command(u) ==
    /\ IF u \in DOMAIN subscribed_users
       THEN /\ subscribed_users' =
                  [v \in DOMAIN subscribed_users \ {u} |-> subscribed_users[v]]
            /\ dk_entries' = dict_delitem_entries(dk_entries, u)
            /\ dk_size' = dk_size
            /\ Replies(DigestBot, "unsubscribe", "unsubscribed")
       ELSE /\ Replies(DigestBot, "unsubscribe", "not_subscribed")
            /\ UNCHANGED registry
    /\ optout' = optout \cup {u}
    /\ UNCHANGED <<job, calls>>

\* ------------------------------------------------------ send_daily_digest

\* The loop body's try ... except Exception: whether an exception e raised
\* in the body is caught there (and logged) rather than leaving the loop.
body_except_Reraise(e) == FALSE

body_except(e) == TRUE

\* The for statement asks the iterator for the next item: the body starts for
\* the item (up to its first await), the loop ends at StopIteration, and a
\* RuntimeError, raised outside the body's try, leaves send_daily_digest.
for_next(pos, used, len) ==
    LET r == dictiter_iternextitem(pos, used, len) IN
    /\ news_data' = "None"
    /\ trending_data' = "None"
    /\ IF r.kind = "item"
       THEN /\ pc' = "fetch_news"
            /\ user_id' = r.key
            /\ chat_id' = subscribed_users[r.key].chat_id
            /\ di_pos' = r.pos
            /\ di_used' = used
            /\ di_len' = len - 1
       ELSE /\ pc' = (IF r.kind = "StopIteration" THEN "done" ELSE "aborted")
            /\ user_id' = 0
            /\ chat_id' = 0
            /\ di_pos' = 0
            /\ di_used' = 0
            /\ di_len' = 0

\* The job queue calls send_daily_digest: the iterator is made and asked for
\* its first item.
send_daily_digest ==
    /\ pc = "idle"
    /\ snapshot' = DOMAIN subscribed_users
    /\ attempted' = <<>>
    /\ raised' = {}
    /\ logged' = {}
    /\ for_next(0, ma_used, ma_used)
    /\ UNCHANGED <<members, now, ui, calls>>

\* await fetch_news('news', 5) returns.
fetch_news_return(o) ==
    /\ pc = "fetch_news"
    /\ news_data' = fetch_news(o)
    /\ pc' = "fetch_trending"
    /\ UNCHANGED <<members, now, ui, calls, iterator, user_id, chat_id, trending_data, history>>

\* await fetch_news('trending', 5) returns; the text is put together and
\* send_message is called.
fetch_trending_return(o) ==
    /\ pc = "fetch_trending"
    /\ trending_data' = fetch_news(o)
    /\ pc' = "send"
    /\ UNCHANGED <<members, now, ui, calls, iterator, user_id, chat_id, news_data, history>>

\* send_message that, when the delivery raises, also drops the subscriber
\* from the registry.
send_message_return_Prune(e) ==
    /\ pc = "send"
    /\ attempted' = Append(attempted, user_id)
    /\ snapshot' = snapshot
    /\ UNCHANGED <<optout, now, ui, calls>>
    /\ IF e = "ok"
       THEN /\ UNCHANGED <<registry, raised, logged>>
            /\ for_next(di_pos, di_used, di_len)
       ELSE /\ raised' = raised \cup {user_id}
            /\ logged' = logged \cup {user_id}
            /\ subscribed_users' =
                  [v \in DOMAIN subscribed_users \ {user_id} |-> subscribed_users[v]]
            /\ dk_entries' = dict_delitem_entries(dk_entries, user_id)
            /\ dk_size' = dk_size
            /\ for_next(di_pos, di_used, di_len)

\* await context.bot.send_message returns (e = "ok") or raises e; the loop
\* goes on to the next item.
send_message_return(e) ==
    /\ pc = "send"
    /\ attempted' = Append(attempted, user_id)
    /\ snapshot' = snapshot
    /\ UNCHANGED <<members, now, ui, calls>>
    /\ IF e = "ok"
       THEN /\ UNCHANGED <<raised, logged>>
            /\ for_next(di_pos, di_used, di_len)
       ELSE /\ raised' = raised \cup {user_id}
            /\ IF body_except(e)
               THEN /\ logged' = logged \cup {user_id}
                    /\ for_next(di_pos, di_used, di_len)
               ELSE /\ logged' = logged
                    /\ pc' = "aborted"
                    /\ user_id' = 0
                    /\ chat_id' = 0
                    /\ di_pos' = 0
                    /\ di_used' = 0
                    /\ di_len' = 0
                    /\ news_data' = "None"
                    /\ trending_data' = "None"

\* send_daily_digest is over (it returned, or an exception left it to the job
\* queue); the next day's run can start.
job_return ==
    /\ pc \in {"done", "aborted"}
    /\ pc' = "idle"
    /\ snapshot' = {}
    /\ attempted' = <<>>
    /\ raised' = {}
    /\ logged' = {}
    /\ UNCHANGED <<members, now, ui, calls, iterator, body>>

\* What send_message can come to.
SendOutcomes == {"ok", "TelegramError"}

\* ------------------------------------------- telegram-digest.py commands

\* The texts a handler sends, each the sequence of its parts.
Loading == <<"loading">>

Failed == <<"failed">>

\* loading_msg.edit_text(text): the loading message, the handler's only
\* message, gets the new text.
edit_text(msgs, text) == [msgs EXCEPT ![Len(msgs)] = text]

\* The endpoints of news_command, bitcoin_command, defi_command and
\* breaking_command, which all call send_news.
NewsEndpoints == {"news", "bitcoin", "defi", "breaking"}

\* start, registered for /start and /help: the welcome text.
start(name) ==
    /\ Replies(DigestBot, name, "welcome")
    /\ UNCHANGED <<members, now, job, calls>>

\* send_news up to its await of fetch_news: the loading message is sent.
send_news(endpoint) ==
    /\ CanStart
    /\ handler' = [script |-> DigestBot, name |-> endpoint]
    /\ hpc' = "fetch"
    /\ chat' = <<Loading>>
    /\ fetches' = <<>>
    /\ UNCHANGED <<members, now, job, calls>>

\* send_news after fetch_news returned: the failure text, or the title, the
\* numbered articles and the time.
send_news_return(o) ==
    /\ hpc = "fetch"
    /\ handler.script = DigestBot
    /\ handler.name \in NewsEndpoints
    /\ fetches' = <<fetch_news(o)>>
    /\ chat' = edit_text(chat, IF HasItems(fetch_news(o))
                               THEN <<"title", "articles", "updated">>
                               ELSE Failed)
    /\ hpc' = "returned"
    /\ UNCHANGED <<handler, members, now, job, calls>>

\* trending_command up to its await of fetch_news('trending', 10).
trending_command ==
    /\ CanStart
    /\ handler' = [script |-> DigestBot, name |-> "trending"]
    /\ hpc' = "fetch"
    /\ chat' = <<Loading>>
    /\ fetches' = <<>>
    /\ UNCHANGED <<members, now, job, calls>>

\* trending_command after fetch_news returned.
trending_command_return(o) ==
    /\ hpc = "fetch"
    /\ handler = [script |-> DigestBot, name |-> "trending"]
    /\ fetches' = <<fetch_news(o)>>
    /\ chat' = edit_text(chat, IF HasItems(fetch_news(o))
                               THEN <<"title", "topics", "analyzed">>
                               ELSE Failed)
    /\ hpc' = "returned"
    /\ UNCHANGED <<handler, members, now, job, calls>>

\* A part of a text that is there only when its data has items.
Section(data, part) == IF HasItems(data) THEN <<part>> ELSE <<>>

\* The digest text put together in the order of the three fetches.
digest_text_FetchOrder(news, trending, analyze) ==
    <<"header">> \o Section(news, "headlines") \o Section(trending, "trending")
      \o Section(analyze, "sentiment") \o <<"footer">>

\* The digest text with a section for every fetch that returned a response.
digest_text_KeepEmpty(news, trending, analyze) ==
    <<"header">>
      \o (IF analyze # "None" THEN <<"sentiment">> ELSE <<>>)
      \o (IF trending # "None" THEN <<"trending">> ELSE <<>>)
      \o (IF news # "None" THEN <<"headlines">> ELSE <<>>)
      \o <<"footer">>

\* digest_command's text: the title and date, the market sentiment, the top
\* trending topics, the top headlines, the footer.
digest_text(news, trending, analyze) ==
    <<"header">> \o Section(analyze, "sentiment") \o Section(trending, "trending")
      \o Section(news, "headlines") \o <<"footer">>

\* The fetches of digest_command, in the order of its awaits.
DigestRequests ==
    <<[endpoint |-> "news", limit |-> 5],
      [endpoint |-> "trending", limit |-> 5],
      [endpoint |-> "analyze", limit |-> 10]>>

\* The fetches of the loop body of send_daily_digest.
DailyRequests ==
    <<[endpoint |-> "news", limit |-> 5],
      [endpoint |-> "trending", limit |-> 5]>>

\* The text of send_daily_digest for one subscriber: the greeting, the hot
\* topics, the headlines, the closing line.
daily_text(news, trending) ==
    <<"greeting">> \o Section(trending, "trending")
      \o Section(news, "headlines") \o <<"closing">>

\* The fetches the handler of /digest has issued so far.
handler_requests ==
    SubSeq(DigestRequests, 1,
           IF hpc = "fetch" THEN Len(fetches) + 1 ELSE Len(fetches))

\* The fetches the loop body of send_daily_digest has issued so far for the
\* subscriber it is at.
job_requests ==
    CASE pc = "fetch_news"                -> SubSeq(DailyRequests, 1, 1)
      [] pc \in {"fetch_trending", "send"} -> DailyRequests
      [] OTHER                            -> <<>>

\* The text send_message is called with, while the call is awaited.
job_text == daily_text(news_data, trending_data)

\* digest_command up to its first await: the loading message is sent.
digest_command ==
    /\ CanStart
    /\ handler' = [script |-> DigestBot, name |-> "digest"]
    /\ hpc' = "fetch"
    /\ chat' = <<Loading>>
    /\ fetches' = <<>>
    /\ UNCHANGED <<members, now, job, calls>>

\* digest_command when one of its fetches (news, trending, analyze, awaited
\* in this order) returns; after the third the text is put together and the
\* loading message edited.
digest_command_return(o) ==
    /\ hpc = "fetch"
    /\ handler = [script |-> DigestBot, name |-> "digest"]
    /\ fetches' = Append(fetches, fetch_news(o))
    /\ IF Len(fetches) = 2
       THEN /\ chat' = edit_text(chat,
                          digest_text(fetches[1], fetches[2], fetch_news(o)))
            /\ hpc' = "returned"
       ELSE /\ chat' = chat
            /\ hpc' = "fetch"
    /\ UNCHANGED <<handler, members, now, job, calls>>

\* The callback_data of the buttons of the welcome message.
ButtonActions == NewsEndpoints \cup {"trending", "digest", "subscribe"}

\* The handler of the slash command of the name of a button, for user u in
\* chat c, up to its first await.
command(action, u, c) ==
    CASE action \in NewsEndpoints -> send_news(action)
      [] action = "trending"      -> trending_command
      [] action = "digest"        -> digest_command
      [] action = "subscribe"     -> subscribe_command(u, c) /\ UNCHANGED now

\* button_callback for the button action pressed by user u in chat c, up to
\* the first await after query.answer(): the news buttons call send_news
\* with the arguments of their commands, the others call the command's
\* handler. For subscribe it first assigns update.message: with an Update
\* that the library keeps frozen the assignment raises AttributeError and the
\* handler ends there; with one it does not, subscribe_command runs.
button_callback(action, u, c, frozen) ==
    IF action = "subscribe" /\ frozen
    THEN /\ CanStart
         /\ handler' = [script |-> DigestBot, name |-> "subscribe"]
         /\ hpc' = "raised"
         /\ chat' = <<>>
         /\ fetches' = <<>>
         /\ UNCHANGED <<members, now, job, calls>>
    ELSE command(action, u, c)

\* -------------------------------------------------- telegram-bot.py commands

\* telegram-bot.py fetch_news: resp.json() of whatever came back, nothing
\* caught. A failed request and a body that is not JSON raise; the body of a
\* status other than 200 is decoded like any other, so it raises or gives a
\* JSON without articles.
bot_fetch_news(o) ==
    CASE o = "network"     -> {"raise"}
      [] o = "decode"      -> {"raise"}
      [] o = "http_status" -> {"raise", "empty"}
      [] OTHER             -> {o}

\* telegram-bot.py news_command up to its await of fetch_news.
bot_news_command ==
    /\ CanStart
    /\ handler' = [script |-> SimpleBot, name |-> "news"]
    /\ hpc' = "fetch"
    /\ chat' = <<Loading>>
    /\ fetches' = <<>>
    /\ UNCHANGED <<members, now, job, calls>>

\* telegram-bot.py news_command after fetch_news returned or raised.
bot_news_command_return(o) ==
    /\ hpc = "fetch"
    /\ handler = [script |-> SimpleBot, name |-> "news"]
    /\ \E r \in bot_fetch_news(o) :
          /\ fetches' = <<r>>
          /\ hpc' = IF r = "raise" THEN "raised" ELSE "returned"
          /\ chat' = CASE r = "raise" -> chat
                       [] r = "empty" -> Append(chat, <<"no_news">>)
                       [] OTHER       -> Append(chat, <<"title", "articles">>)
    /\ UNCHANGED <<handler, members, now, job, calls>>

\* telegram-bot.py defi_command and bitcoin_command up to the await of
\* fetch_news: nothing is sent yet.
bot_list_command(name) ==
    /\ CanStart
    /\ handler' = [script |-> SimpleBot, name |-> name]
    /\ hpc' = "fetch"
    /\ chat' = <<>>
    /\ fetches' = <<>>
    /\ UNCHANGED <<members, now, job, calls>>

\* telegram-bot.py defi_command and bitcoin_command after fetch_news: the
\* title and a line for each article.
bot_list_command_return(o) ==
    /\ hpc = "fetch"
    /\ handler.script = SimpleBot
    /\ handler.name \in {"defi", "bitcoin"}
    /\ \E r \in bot_fetch_news(o) :
          /\ fetches' = <<r>>
          /\ hpc' = IF r = "raise" THEN "raised" ELSE "returned"
          /\ chat' = CASE r = "raise" -> chat
                       [] r = "empty" -> Append(chat, <<"title">>)
                       [] OTHER       -> Append(chat, <<"title", "articles">>)
    /\ UNCHANGED <<handler, members, now, job, calls>>

\* telegram-bot.py breaking_command up to its await of fetch_news.
bot_breaking_command ==
    /\ CanStart
    /\ handler' = [script |-> SimpleBot, name |-> "breaking"]
    /\ hpc' = "fetch"
    /\ chat' = <<>>
    /\ fetches' = <<>>
    /\ UNCHANGED <<members, now, job, calls>>

\* telegram-bot.py breaking_command after fetch_news.
bot_breaking_command_return(o) ==
    /\ hpc = "fetch"
    /\ handler = [script |-> SimpleBot, name |-> "breaking"]
    /\ \E r \in bot_fetch_news(o) :
          /\ fetches' = <<r>>
          /\ hpc' = IF r = "raise" THEN "raised" ELSE "returned"
          /\ chat' = CASE r = "raise" -> chat
                       [] r = "empty" -> Append(chat, <<"no_breaking">>)
                       [] OTHER       -> Append(chat, <<"title", "articles">>)
    /\ UNCHANGED <<handler, members, now, job, calls>>

\* ------------------------------------------------------- langchain-tool.py

\* get_crypto_news: requests.get and response.json(), nothing caught, then
\* a line for each article or 'No news available.'; the call is synchronous.
get_crypto_news(o) ==
    /\ CanStart
    /\ handler' = [script |-> LangchainTool, name |-> "get_crypto_news"]
    /\ \E r \in bot_fetch_news(o) :
          /\ fetches' = <<r>>
          /\ hpc' = IF r = "raise" THEN "raised" ELSE "returned"
          /\ chat' = CASE r = "raise" -> <<>>
                       [] r = "empty" -> <<<<"no_news">>>>
                       [] OTHER       -> <<<<"articles">>>>
    /\ UNCHANGED <<members, now, job, calls>>

\* ------------------------------------------------------------------- main

\* No process has run main yet.
NotStarted ==
    [script |-> "none", token |-> "none", pc |-> "none", reported |-> FALSE,
     handlers |-> {}, jobs |-> {}, polling |-> FALSE]

\* What BOT_TOKEN can be when main runs: the placeholder of the script (no
\* token was configured), the empty string, a string that Telegram rejects,
\* a token of a bot.
Tokens == {"placeholder", "empty", "rejected", "valid"}

\* The commands main registers in telegram-digest.py; its
\* CallbackQueryHandler is "button".
DigestHandlers ==
    {"start", "help", "news", "bitcoin", "defi", "breaking", "trending",
     "digest", "subscribe", "unsubscribe", "button"}

\* The commands main registers in telegram-bot.py.
BotHandlers == {"news", "defi", "bitcoin", "breaking"}

\* Application.builder().token(token).build(), then the add_handler and
\* run_daily calls, then run_polling of a main that does not test the token:
\* the library refuses the empty string in build(); any other string is
\* checked only when run_polling initializes the bot, which raises if
\* Telegram rejects it.
run(script, token, handlers, jobs) ==
    IF token = "empty"
    THEN [script |-> script, token |-> token, pc |-> "raised", reported |-> FALSE,
          handlers |-> {}, jobs |-> {}, polling |-> FALSE]
    ELSE [script |-> script, token |-> token,
          pc |-> IF token = "valid" THEN "polling" ELSE "raised",
          reported |-> FALSE, handlers |-> handlers, jobs |-> jobs,
          polling |-> TRUE]

\* main of telegram-digest.py: BOT_TOKEN is the environment variable
\* TELEGRAM_BOT_TOKEN or the placeholder; job_queue is whether the library
\* was installed with its job queue.
digest_main(token, job_queue) ==
    /\ app = NotStarted
    /\ app' = IF token = "placeholder"
               THEN [script |-> DigestBot, token |-> token, pc |-> "returned",
                     reported |-> TRUE, handlers |-> {}, jobs |-> {},
                     polling |-> FALSE]
               ELSE run(DigestBot, token, DigestHandlers,
                        IF job_queue THEN {"daily_digest"} ELSE {})
    /\ UNCHANGED <<members, now, ui, job, md, render>>

\* main of telegram-bot.py: BOT_TOKEN is the string in the script, the
\* placeholder unless the script was edited.
bot_main(token) ==
    /\ app = NotStarted
    /\ app' = run(SimpleBot, token, BotHandlers, {})
    /\ UNCHANGED <<members, now, ui, job, md, render>>

\* The application of script s is polling for updates.
Polling(s) == app.script = s /\ app.pc = "polling"

\* ---------------------------------------------------------- specification

Init ==
    /\ subscribed_users = <<>>
    /\ dk_entries = <<>>
    /\ dk_size = PyDict_MINSIZE
    /\ now = 0
    /\ handler = NoHandler
    /\ hpc = "idle"
    /\ chat = <<>>
    /\ fetches = <<>>
    /\ pc = "idle"
    /\ di_pos = 0
    /\ di_used = 0
    /\ di_len = 0
    /\ user_id = 0
    /\ chat_id = 0
    /\ news_data = "None"
    /\ trending_data = "None"
    /\ snapshot = {}
    /\ attempted = <<>>
    /\ raised = {}
    /\ logged = {}
    /\ md_in = <<>>
    /\ md_out = <<>>
    /\ md_done = FALSE
    /\ optout = Users
    /\ rd_in = NoCall
    /\ rd_out = <<>>
    /\ app = NotStarted

\* A user subscribes in a private chat.
Subscribe ==
    /\ \E u \in Users : subscribe_command(u, u)
    /\ UNCHANGED now

Unsubscribe ==
    /\ \E u \in Users : unsubscribe_command(u)
    /\ UNCHANGED now

FetchNewsReturn == \E o \in HttpOutcomes : fetch_news_return(o)

FetchTrendingReturn == \E o \in HttpOutcomes : fetch_trending_return(o)

SendMessageReturn == \E e \in SendOutcomes : send_message_return(e)

DigestJob ==
    \/ send_daily_digest
    \/ FetchNewsReturn
    \/ FetchTrendingReturn
    \/ SendMessageReturn
    \/ job_return

\* The digest bot with its daily job: the handlers of /subscribe and
\* /unsubscribe run whenever the job is suspended at an await or not running.
Next ==
    \/ Subscribe
    \/ Unsubscribe
    \/ DigestJob

Spec == Init /\ [][Next]_vars

\* The clock a handler reads with datetime.now() is later at every update.
Tick ==
    /\ now < MaxClock
    /\ now' = now + 1

\* A user subscribes in a private or in the group chat, at a time of its own.
SubscribeAnyChat ==
    /\ \E u \in Users : \E c \in Chats(u) : subscribe_command(u, c)
    /\ Tick

UnsubscribeLater ==
    /\ \E u \in Users : unsubscribe_command(u)
    /\ Tick

\* The registry commands alone, from either kind of chat, as time passes.
NextRegistry ==
    \/ SubscribeAnyChat
    \/ UnsubscribeLater

SpecRegistry == Init /\ [][NextRegistry]_vars

\* The daily job over a registry that no command changes while a cycle is
\* in progress: commands are handled between the cycles only.
NextSerial ==
    \/ pc = "idle" /\ Subscribe
    \/ pc = "idle" /\ Unsubscribe
    \/ DigestJob

SpecSerial == Init /\ [][NextSerial]_vars

\* Every command handler of the three scripts, one update at a time.
NextCommands ==
    \/ \E n \in {"start", "help"} : start(n)
    \/ \E e \in NewsEndpoints : send_news(e)
    \/ \E o \in HttpOutcomes : send_news_return(o)
    \/ trending_command
    \/ \E o \in HttpOutcomes : trending_command_return(o)
    \/ digest_command
    \/ \E o \in HttpOutcomes : digest_command_return(o)
    \/ Subscribe
    \/ Unsubscribe
    \/ bot_news_command
    \/ \E o \in HttpOutcomes : bot_news_command_return(o)
    \/ \E n \in {"defi", "bitcoin"} : bot_list_command(n)
    \/ \E o \in HttpOutcomes : bot_list_command_return(o)
    \/ bot_breaking_command
    \/ \E o \in HttpOutcomes : bot_breaking_command_return(o)
    \/ \E o \in HttpOutcomes : get_crypto_news(o)

SpecCommands == Init /\ [][NextCommands]_vars

\* The 18 characters MarkdownV2 has to have escaped.
SpecialSet ==
    {"_", "*", "[", "]", "(", ")", "~", "backtick", ">", "#", "+", "-", "=", "|",
     "{", "}", ".", "!"}

\* The characters of the texts escape_markdown is called with: the special
\* characters, a letter and the backslash.
Alphabet == SpecialSet \cup {"a", "\\"}

Texts == UNION {[1 .. n -> Alphabet] : n \in 0 .. MaxLen}

\* escape_markdown called once with any text.
InitEscape ==
    /\ subscribed_users = <<>>
    /\ dk_entries = <<>>
    /\ dk_size = PyDict_MINSIZE
    /\ now = 0
    /\ handler = NoHandler
    /\ hpc = "idle"
    /\ chat = <<>>
    /\ fetches = <<>>
    /\ pc = "idle"
    /\ di_pos = 0
    /\ di_used = 0
    /\ di_len = 0
    /\ user_id = 0
    /\ chat_id = 0
    /\ news_data = "None"
    /\ trending_data = "None"
    /\ snapshot = {}
    /\ attempted = <<>>
    /\ raised = {}
    /\ logged = {}
    /\ md_in \in Texts
    /\ md_out = <<>>
    /\ md_done = FALSE
    /\ optout = Users
    /\ rd_in = NoCall
    /\ rd_out = <<>>
    /\ app = NotStarted

NextEscape == EscapeCall

SpecEscape == InitEscape /\ [][NextEscape]_vars

\* A user subscribes in a private chat, at a time of its own.
SubscribeLater ==
    /\ now < MaxUpdates
    /\ \E u \in Users : subscribe_command(u, u)
    /\ Tick

UnsubscribeEarly ==
    /\ now < MaxUpdates
    /\ UnsubscribeLater

\* The digest bot with its daily job, as in Spec, for a bounded number of
\* commands: their handlers run whenever the job is suspended at an await or
\* not running.
NextLive ==
    \/ SubscribeLater
    \/ UnsubscribeEarly
    \/ DigestJob

SpecLive == Init /\ [][NextLive]_vars

\* The digest on demand and on the schedule, one at a time: /digest is
\* handled and subscribers are added between the cycles of the job.
NextDigest ==
    \/ pc = "idle" /\ hpc # "fetch" /\ Subscribe
    \/ pc = "idle" /\ digest_command
    \/ \E o \in HttpOutcomes : digest_command_return(o)
    \/ hpc # "fetch" /\ DigestJob

SpecDigest == Init /\ [][NextDigest]_vars

\* A user presses a button under the welcome message, in a private chat.
ButtonCallback ==
    \E action \in ButtonActions : \E u \in Users : \E frozen \in BOOLEAN :
       button_callback(action, u, u, frozen)

\* The digest bot's commands and buttons, one update at a time.
NextButtons ==
    \/ \E n \in {"start", "help"} : start(n)
    \/ \E e \in NewsEndpoints : send_news(e)
    \/ \E o \in HttpOutcomes : send_news_return(o)
    \/ trending_command
    \/ \E o \in HttpOutcomes : trending_command_return(o)
    \/ digest_command
    \/ \E o \in HttpOutcomes : digest_command_return(o)
    \/ Subscribe
    \/ Unsubscribe
    \/ ButtonCallback

SpecButtons == Init /\ [][NextButtons]_vars

\* A registry command, sent from a private chat, while the count of registry
\* commands is short of MaxCommands.
SubscribeFrame ==
    /\ now < MaxCommands
    /\ SubscribeLater

UnsubscribeFrame ==
    /\ now < MaxCommands
    /\ UnsubscribeLater

\* The digest bot whole: the registry commands at times of their own, the
\* reading commands and the daily job. A command is taken up between the
\* cycles of the job, and the job goes on while no handler is waiting for
\* the API.
NextFrame ==
    \/ pc = "idle" /\ SubscribeFrame
    \/ pc = "idle" /\ UnsubscribeFrame
    \/ pc = "idle" /\ \E e \in NewsEndpoints : send_news(e)
    \/ \E o \in HttpOutcomes : send_news_return(o)
    \/ pc = "idle" /\ trending_command
    \/ \E o \in HttpOutcomes : trending_command_return(o)
    \/ pc = "idle" /\ digest_command
    \/ \E o \in HttpOutcomes : digest_command_return(o)
    \/ hpc # "fetch" /\ DigestJob

SpecFrame == Init /\ [][NextFrame]_vars

\* A process runs main of one of the bots; the handlers of a bot run once
\* its application polls.
NextMain ==
    \/ \E t \in Tokens : \E q \in BOOLEAN : digest_main(t, q)
    \/ \E t \in Tokens : bot_main(t)
    \/ Polling(DigestBot) /\ Subscribe
    \/ Polling(DigestBot) /\ Unsubscribe
    \/ Polling(SimpleBot) /\ bot_breaking_command
    \/ Polling(SimpleBot) /\ \E o \in HttpOutcomes : bot_breaking_command_return(o)

SpecMain == Init /\ [][NextMain]_vars

\* A rendering function called once with any arguments.
InitRender ==
    /\ subscribed_users = <<>>
    /\ dk_entries = <<>>
    /\ dk_size = PyDict_MINSIZE
    /\ now = 0
    /\ handler = NoHandler
    /\ hpc = "idle"
    /\ chat = <<>>
    /\ fetches = <<>>
    /\ pc = "idle"
    /\ di_pos = 0
    /\ di_used = 0
    /\ di_len = 0
    /\ user_id = 0
    /\ chat_id = 0
    /\ news_data = "None"
    /\ trending_data = "None"
    /\ snapshot = {}
    /\ attempted = <<>>
    /\ raised = {}
    /\ logged = {}
    /\ md_in = <<>>
    /\ md_out = <<>>
    /\ md_done = FALSE
    /\ optout = Users
    /\ rd_in \in RenderCalls
    /\ rd_out = <<>>
    /\ app = NotStarted

NextRender ==
    \/ FormatArticleCall
    \/ HeadlinesCall
    \/ TrendingLineCall
    \/ DigestTopicLineCall
    \/ SentimentLineCall
    \/ SubscriptLineCall

SpecRender == InitRender /\ [][NextRender]_vars

\* ------------------------------------------------------------------ claims

Range(f) == {f[i] : i \in DOMAIN f}

\* The number of entries of the entries array that hold user u.
EntriesOf(u) == Cardinality({i \in DOMAIN dk_entries : dk_entries[i] = u})

\* C1: a delivery that raises for any subset of the subscribers is caught
\* and logged, the cycle never ends in an exception, and at its end a send
\* has been attempted exactly once for every subscriber of the registry.
C1_DeliveryFailureIsolated ==
    /\ pc # "aborted"
    /\ raised \subseteq logged
    /\ pc \in {"fetch_news", "fetch_trending", "send", "done"}
          => snapshot = DOMAIN subscribed_users
    /\ pc = "done"
          => /\ Range(attempted) = DOMAIN subscribed_users
             /\ Len(attempted) = ma_used

\* C1 witness: a finished cycle over three subscribers in which the delivery
\* to the second one, and only that one, raised.
C1_Witness ==
    /\ pc = "done"
    /\ Len(attempted) = 3
    /\ raised = {attempted[2]}
    /\ logged = raised

\* C2: the fan-out never ends in an exception of the iteration, whatever
\* subscribe and unsubscribe commands run while it is suspended.
C2_IterationNeverRaises == pc # "aborted"

\* C3: a cycle attempts delivery only to subscribers registered when it
\* started, to none of them twice, and at its end to every one of them.
C3_FanOutIsSnapshot ==
    /\ \A i \in DOMAIN attempted : attempted[i] \in snapshot
    /\ \A i, j \in DOMAIN attempted : attempted[i] = attempted[j] => i = j
    /\ pc = "done" => Range(attempted) = snapshot

\* C4: subscribing an id that is in the registry replies 'already
\* subscribed' and changes nothing; a new id gets the chat and the time of
\* that subscribe; an entry is never changed while its id stays in the
\* registry, and the dict holds exactly one entry for each registered id.
C4_ResubscribeIsNoOp ==
    /\ [](\A u \in Users :
            EntriesOf(u) = IF u \in DOMAIN subscribed_users THEN 1 ELSE 0)
    /\ [][\A u \in Users :
            /\ (u \in DOMAIN subscribed_users /\ u \in DOMAIN subscribed_users')
                  => subscribed_users'[u] = subscribed_users[u]
            /\ \A c \in Chats(u) :
                  subscribe_command(u, c) =>
                     IF u \in DOMAIN subscribed_users
                     THEN /\ Replies(DigestBot, "subscribe", "already_subscribed")
                          /\ UNCHANGED registry
                     ELSE /\ Replies(DigestBot, "subscribe", "subscribed")
                          /\ subscribed_users'[u].chat_id = c
                          /\ subscribed_users'[u].subscribed_at = now]_vars

\* C4 witness: the only subscriber, registered from the group chat at an
\* earlier time, has subscribed again and was told so.
C4_Witness ==
    /\ chat = <<<<"already_subscribed">>>>
    /\ \E u \in Users :
          /\ DOMAIN subscribed_users = {u}
          /\ subscribed_users[u].chat_id = GroupChat
          /\ subscribed_users[u].subscribed_at < now

\* C5: unsubscribing an id that is not in the registry replies 'not
\* subscribed' and changes nothing; unsubscribing a registered id removes
\* that entry and leaves every other entry as it was.
C5_UnsubscribeFrame ==
    [][\A u \in Users :
          unsubscribe_command(u) =>
             IF u \in DOMAIN subscribed_users
             THEN /\ Replies(DigestBot, "unsubscribe", "unsubscribed")
                  /\ DOMAIN subscribed_users' = DOMAIN subscribed_users \ {u}
                  /\ \A v \in DOMAIN subscribed_users' :
                        subscribed_users'[v] = subscribed_users[v]
                  /\ LiveEntries(dk_entries') =
                        SelectSeq(LiveEntries(dk_entries), LAMBDA e : e # u)
             ELSE /\ Replies(DigestBot, "unsubscribe", "not_subscribed")
                  /\ UNCHANGED registry]_vars

\* C5 witness: a user who is not registered was told so while the registry
\* holds two others.
C5_Witness ==
    /\ chat = <<<<"not_subscribed">>>>
    /\ ma_used = 2

\* The handler of /digest has returned.
DigestDone ==
    /\ handler = [script |-> DigestBot, name |-> "digest"]
    /\ hpc = "returned"

\* The last message in the user's chat.
LastText == chat[Len(chat)]

Has(text, part) == \E i \in DOMAIN text : text[i] = part

C7_AlwaysFinalResponse ==
    (hpc \in {"returned", "raised"} /\ handler.script \in {DigestBot, SimpleBot})
       => (chat # <<>> /\ LastText # Loading)

\* C8: no fetch of any script raises to its caller and no handler or tool
\* call ends in an exception.
C8_NoExceptionCrossesClient ==
    /\ hpc # "raised"
    /\ \A i \in DOMAIN fetches : fetches[i] # "raise"

\* The place of a part in the digest's fixed order.
DigestOrder == <<"header", "sentiment", "trending", "headlines", "footer">>

Rank(part) == CHOOSE k \in DOMAIN DigestOrder : DigestOrder[k] = part

\* C9: the parts of a digest are parts of the fixed order header, sentiment,
\* trending, headlines, footer and appear in that order, header first and
\* footer last, whatever the three fetches returned.
C9_SectionOrder ==
    DigestDone =>
       /\ \A i \in DOMAIN LastText : Has(DigestOrder, LastText[i])
       /\ \A i, j \in DOMAIN LastText : i < j => Rank(LastText[i]) < Rank(LastText[j])
       /\ LastText[1] = "header"
       /\ LastText[Len(LastText)] = "footer"

\* C9 witness: a digest with all five parts.
C9_Witness ==
    /\ DigestDone
    /\ fetches = <<"ok", "ok", "ok">>
    /\ Len(LastText) = 5

\* A text with one backslash put before each special character of it.
RECURSIVE Escaped(_)
Escaped(text) ==
    IF text = <<>> THEN <<>>
    ELSE (IF Head(text) \in SpecialSet THEN <<"\\", Head(text)>> ELSE <<Head(text)>>)
           \o Escaped(Tail(text))

\* C10: escape_markdown returns its text with exactly one backslash added
\* before every special character and nothing else changed.
C10_EscapeExhaustive == md_done => md_out = Escaped(md_in)

\* C10 witness: a text with a backslash, special characters and a letter.
C10_Witness ==
    /\ md_done
    /\ md_in = <<"\\", "!", "a">>
    /\ md_out = <<"\\", "\\", "!", "a">>

\* The call rd_in of the rendering function fn has returned.
Rendered(fn) == rd_in.fn = fn /\ Len(rd_out) = 1

\* C11: every text field of the API response that a MarkdownV2 message of
\* telegram-digest.py embeds (article title, source and timeAgo, topic name,
\* sentiment word) is embedded as escape_markdown returns it.
C11_ApiTextEscaped ==
    /\ Rendered("format_article") =>
          /\ rd_out[1].title =
                Escaped(get(rd_in.article, "title", <<"No title">>))
          /\ rd_out[1].source =
                Escaped(get(rd_in.article, "source", <<"Unknown">>))
          /\ rd_out[1].time_ago = Escaped(get(rd_in.article, "timeAgo", <<>>))
    /\ Rendered("trending_line") =>
          /\ rd_out[1].topic = Escaped(get(rd_in.topic, "topic", <<"Unknown">>))
          /\ rd_out[1].sentiment =
                Escaped(get(rd_in.topic, "sentiment", <<"neutral">>))
    /\ Rendered("digest_topic_line") =>
          rd_out[1].topic = Escaped(get(rd_in.topic, "topic", <<>>))
    /\ Rendered("sentiment_line") =>
          rd_out[1].sentiment =
             Escaped(upper(get(rd_in.analysis, "overallSentiment", <<"neutral">>)))

\* The texts that say that there is nothing to show.
Placeholders == {<<"no_news">>, <<"no_breaking">>}

\* C12: a handler that renders a list and whose fetch came back with zero
\* items ends with a 'no data' placeholder as its last text: not with a
\* title that has no body, not with the failure text and not with nothing.
C12_EmptyGivesPlaceholder ==
    (hpc = "returned" /\ fetches = <<"empty">>)
       => (chat # <<>> /\ LastText \in Placeholders)

\* C13: for an article record with any subset of its fields missing, the
\* rendering of every script puts 'No title', 'Unknown', an empty link and
\* an empty time in the place of the missing fields and does not raise.
C13_MissingFieldsFallback ==
    /\ Rendered("format_article") =>
          /\ rd_out[1].title =
                Escaped(get(rd_in.article, "title", <<"No title">>))
          /\ rd_out[1].source = get(rd_in.article, "source", <<"Unknown">>)
          /\ rd_out[1].link = get(rd_in.article, "link", <<>>)
          /\ rd_out[1].time_ago = get(rd_in.article, "timeAgo", <<>>)
    /\ Rendered("subscript_line") =>
          /\ "KeyError" \notin DOMAIN rd_out[1]
          /\ \A k \in LineKeys[rd_in.handler] :
                rd_out[1][k] =
                   get(rd_in.article, k,
                       CASE k = "title"  -> <<"No title">>
                         [] k = "source" -> <<"Unknown">>
                         [] OTHER        -> <<>>)

\* The smaller of two numbers.
Min(a, b) == IF a < b THEN a ELSE b

\* C14: the headlines of a news or digest message are the first
\* min(n, limit) articles of the response, in its order, numbered from 1
\* on, each with the escaped title of its article.
C14_HeadlinesInApiOrder ==
    Rendered("headlines") =>
       /\ Len(rd_out[1]) = Min(Len(rd_in.articles), rd_in.limit)
       /\ \A i \in DOMAIN rd_out[1] :
             /\ rd_out[1][i].prefix = <<ToString(i), ".", " ">>
             /\ rd_out[1][i].title = Escaped(rd_in.articles[i]["title"])

\* C14 witness: a response of more articles than the limit, with different
\* titles, has been rendered as the limit's number of headlines.
C14_Witness ==
    /\ Rendered("headlines")
    /\ Len(rd_in.articles) > rd_in.limit
    /\ Len(rd_out[1]) = rd_in.limit
    /\ rd_in.articles[1]["title"] = <<"a", ".">>
    /\ rd_in.articles[2]["title"] = <<"b", "!">>
    /\ rd_out[1][2].title = <<"b", "\\", "!">>

\* C15: a digest composed on the schedule is composed as the one on demand:
\* each composition has issued exactly the three fetches news (5), trending
\* (5) and analyze (10), once each, when its text goes out, and the text
\* holds the market sentiment when the analyze fetch succeeded.
C15_ScheduledSameAsOnDemand ==
    /\ DigestDone =>
          /\ handler_requests = DigestRequests
          /\ fetches[3] = "ok" => Has(LastText, "sentiment")
    /\ pc = "send" =>
          /\ job_requests = DigestRequests
          /\ \E analyze \in {fetch_news(o) : o \in HttpOutcomes} :
                /\ Has(job_text, "sentiment") <=> analyze = "ok"
                /\ Has(job_text, "trending") <=> trending_data = "ok"
                /\ Has(job_text, "headlines") <=> news_data = "ok"

\* C16: when no token is configured, main of either bot reports the error
\* and returns: it registers no handler, schedules no job and does not
\* enter polling.
C16_NoTokenNoStart ==
    app.token = "placeholder" =>
       /\ app.reported
       /\ app.pc = "returned"
       /\ app.handlers = {}
       /\ app.jobs = {}
       /\ ~app.polling

\* C18: a button press is the slash command of its name: every step of
\* button_callback is a step of that command's handler for the pressing
\* user, with the same fetches, registry change and response.
C18_ButtonIsCommand ==
    [][\A action \in ButtonActions : \A u \in Users : \A frozen \in BOOLEAN :
          button_callback(action, u, u, frozen) => command(action, u, u)]_vars

\* C17: when the fetches of a subscriber's digest failed in the scheduled
\* path, send_message is not called for that subscriber: the failure is a
\* skip, with nothing for the subscriber to see.
C17_FetchFailureIsLoggedSkip ==
    pc = "send" => (news_data # "None" \/ trending_data # "None")

\* C19: format_article starts with the numbered bullet '{index}. ' whenever
\* an index is given, 0 included, and with the glyph only when none is.
C19_IndexGivesNumber ==
    Rendered("format_article") =>
       rd_out[1].prefix = IF rd_in.index # "None"
                          THEN <<rd_in.index, ".", " ">>
                          ELSE <<"glyph">>

\* C20: the loop of a cycle takes for delivery only a user who is subscribed
\* at that moment, never one whose last command was an unsubscribe or who
\* never subscribed, and a digest goes only to the user the loop has taken:
\* so a user who unsubscribed before a cycle started gets nothing in it
\* unless that user subscribes again.
C20_NoDigestAfterUnsubscribe ==
    [][/\ (pc # "fetch_news" /\ pc' = "fetch_news")
             => (user_id' \in Users /\ user_id' \notin optout')
       /\ pc \in {"fetch_news", "fetch_trending"} => user_id' = user_id
       /\ Len(attempted') > Len(attempted) =>
             (pc = "send" /\ attempted' = Append(attempted, user_id))]_vars

\* C20 witness: the first of two subscribers has unsubscribed, and a cycle
\* that started with the other one alone has sent to that one only.
C20_Witness ==
    /\ pc = "done"
    /\ Len(dk_entries) = 2
    /\ dk_entries[1] = Dummy
    /\ dk_entries[2] # Dummy
    /\ snapshot = {dk_entries[2]}
    /\ attempted = <<dk_entries[2]>>
    /\ Cardinality(optout) = MaxUser - 1

\* C21: a step changes the subscriber registry only if it is subscribe_command
\* of some user adding that user's own id, or unsubscribe_command of some
\* user removing that user's own id; every step of send_daily_digest, every
\* step of a handler of another command, and in particular the step in which
\* a delivery raises, leaves the registry as it was.
C21_RegistryFrame ==
    [][/\ registry' # registry =>
             \E u \in Users :
                \/ /\ \E c \in Chats(u) : subscribe_command(u, c)
                   /\ DOMAIN subscribed_users' = DOMAIN subscribed_users \cup {u}
                   /\ \A v \in DOMAIN subscribed_users :
                         subscribed_users'[v] = subscribed_users[v]
                \/ /\ unsubscribe_command(u)
                   /\ DOMAIN subscribed_users' = DOMAIN subscribed_users \ {u}
                   /\ \A v \in DOMAIN subscribed_users' :
                         subscribed_users'[v] = subscribed_users[v]
       /\ job' # job => registry' = registry
       /\ (ui' # ui /\ handler'.name \notin {"subscribe", "unsubscribe"})
             => registry' = registry
       /\ raised' # raised =>
             /\ registry' = registry
             /\ user_id \in DOMAIN subscribed_users
                   => user_id \in DOMAIN subscribed_users']_vars

\* C21 witness: a cycle is over in which the delivery to every subscriber
\* raised, a reading command has been answered since, and both users the
\* deliveries failed for are still in the registry.
C21_Witness ==
    /\ pc = "done"
    /\ Cardinality(raised) = 2
    /\ raised = DOMAIN subscribed_users
    /\ Len(attempted) = 2
    /\ handler.name = "digest"
    /\ hpc = "returned"

====
